---- MODULE Spec2Model ----
(***************************************************************************)
(* The database merge engine of app/corrected_smart_merger.py:             *)
(* CorrectedSmartDatabaseMerger.execute_merge and the methods it calls,    *)
(* run against two source databases shaped by the schema of app/db.py.     *)
(***************************************************************************)
EXTENDS Integers, Sequences, FiniteSets, TLC

(* ------------------------------ bounds -------------------------------- *)

\* timestamps are 1..MaxTime (text timestamps of one format, ordered by time)
MaxTime == 2

\* rows per parent id in every dependent table of every source
DepPerQuote == 1

\* calls of execute_merge on one merger object
MaxInvocations == 2

(* ------------------------------ values -------------------------------- *)

\* SQL NULL / Python None in a numeric or timestamp column (falsy for `or`)
NULL == 0

\* SQL NULL in a text column
NULLTEXT == "<NULL>"

\* the business keys (quote_no) that occur in the sources
QuoteNos == {"Q1", "Q2"}

\* the two origins, in the order merge_related_table processes them
Origins == <<"main", "copy">>

\* the dependent tables, in the order execute_merge merges them
RelatedTables == <<"tasks", "vendor_quotes", "notes", "events">>

Times == 1..MaxTime

Range(s) == {s[i] : i \in DOMAIN s}

\* a text value that tells its column, its origin and its row apart
Txt(col, origin, tag) == col \o ":" \o origin \o ":" \o tag

(* ------------------------------ schema -------------------------------- *)

\* columns of quotes in the cloned schema, as PRAGMA table_info lists them
QuoteColumns ==
    <<"id", "customer", "quote_no", "description", "sales_rep",
      "project_sheet_url", "mpsf_link", "folder_link", "method_link",
      "hidden", "created_at", "updated_at", "sales_rep_id">>

\* columns of a dependent table, as PRAGMA table_info lists them
TableColumns(table_name) ==
    CASE table_name = "tasks" ->
           <<"id", "quote_id", "label", "done", "is_separator">>
      [] table_name = "vendor_quotes" ->
           <<"id", "quote_id", "type", "vendor", "requested", "entered",
             "status", "notes", "date">>
      [] table_name = "notes" ->
           <<"id", "quote_id", "content", "created_at">>
      [] table_name = "events" ->
           <<"id", "quote_id", "description", "past", "present", "created_at">>
      [] table_name = "email_history" ->
           <<"id", "quote_id", "vendor_quote_id", "vendor_id", "to_email",
             "subject", "body", "template_id", "sent_at", "status",
             "gas_response", "email_status", "cc_emails", "bcc_emails">>

\* the tables of main as sqlite_master lists them (sqlite_* left out), in the
\* order init_db creates them
SchemaTables ==
    <<"quotes", "tasks", "vendor_quotes", "notes", "events", "vendors",
      "sales_reps", "email_history", "email_templates", "default_tasks">>

\* a quotes row as Quote.create writes it: a row of the new system carries
\* sales_rep_id, a legacy row carries the sales_rep string
QuoteRow(origin, quote_no, id, updated_at, created_at, sales_rep_id) ==
    [id                |-> id,
     customer          |-> Txt("customer", origin, quote_no),
     quote_no          |-> quote_no,
     description       |-> Txt("description", origin, quote_no),
     sales_rep         |-> IF sales_rep_id = NULL
                           THEN Txt("sales_rep", origin, quote_no)
                           ELSE NULLTEXT,
     project_sheet_url |-> NULLTEXT,
     mpsf_link         |-> Txt("mpsf_link", origin, quote_no),
     folder_link       |-> Txt("folder_link", origin, quote_no),
     method_link       |-> Txt("method_link", origin, quote_no),
     hidden            |-> 0,
     created_at        |-> created_at,
     updated_at        |-> updated_at,
     sales_rep_id      |-> sales_rep_id]

\* a row of a dependent table of a source, referencing parent id quote_id
RelatedRow(origin, table_name, id, quote_id) ==
    LET tag == ToString(quote_id) IN
    CASE table_name = "tasks" ->
           [id |-> id, quote_id |-> quote_id,
            label |-> Txt("label", origin, tag), done |-> 0, is_separator |-> 0]
      [] table_name = "vendor_quotes" ->
           [id |-> id, quote_id |-> quote_id, type |-> "freight",
            vendor |-> Txt("vendor", origin, tag), requested |-> 0,
            entered |-> 0, status |-> "draft",
            notes |-> Txt("notes", origin, tag), date |-> NULL]
      [] table_name = "notes" ->
           [id |-> id, quote_id |-> quote_id,
            content |-> Txt("content", origin, tag), created_at |-> 1]
      [] table_name = "events" ->
           [id |-> id, quote_id |-> quote_id,
            description |-> Txt("description", origin, tag),
            past |-> NULLTEXT, present |-> NULLTEXT, created_at |-> 1]
      [] table_name = "email_history" ->
           [id |-> id, quote_id |-> quote_id, vendor_quote_id |-> NULL,
            vendor_id |-> NULL, to_email |-> Txt("to_email", origin, tag),
            subject |-> Txt("subject", origin, tag),
            body |-> Txt("body", origin, tag), template_id |-> NULL,
            sent_at |-> 1, status |-> "sent", gas_response |-> NULLTEXT,
            email_status |-> "sent", cc_emails |-> NULLTEXT,
            bcc_emails |-> NULLTEXT]

\* a default_tasks row
DefaultTaskRow(origin, id) ==
    [id |-> id, label |-> Txt("label", origin, ToString(id)),
     sort_order |-> 10 * id, is_separator |-> 0, created_at |-> 1]

(* ------------------------------ inputs -------------------------------- *)

\* parent ids the dependent rows of a source reference: the ids its quotes may
\* have, and one more that no quote has (a dangling reference)
ParentIds == 1..(Cardinality(QuoteNos) + 1)

\* the rows of one dependent table of one source, in rowid order
RelatedRows(origin, table_name) ==
    LET n == Cardinality(ParentIds) IN
    [i \in 1..(n * DepPerQuote) |->
        RelatedRow(origin, table_name, i, ((i - 1) % n) + 1)]

\* a source database: its quotes, its dependent tables and its default tasks
SourceDb(origin, quotes) ==
    [quotes        |-> quotes,
     tasks         |-> RelatedRows(origin, "tasks"),
     vendor_quotes |-> RelatedRows(origin, "vendor_quotes"),
     notes         |-> RelatedRows(origin, "notes"),
     events        |-> RelatedRows(origin, "events"),
     email_history |-> RelatedRows(origin, "email_history"),
     default_tasks |-> IF origin = "main"
                       THEN <<DefaultTaskRow(origin, 1), DefaultTaskRow(origin, 2)>>
                       ELSE <<DefaultTaskRow(origin, 1)>>]

\* the ways to give the business keys distinct ids within one database
IdAssignments ==
    {f \in [QuoteNos -> 1..Cardinality(QuoteNos)] :
        \A a, b \in QuoteNos : a # b => f[a] # f[b]}

\* the quotes tables of the merge scenarios: any subset of the keys, rows as
\* the application writes them (created at time 1, last updated at any time
\* from then on), in a database of the legacy system (sales_rep strings) or
\* of the new one (sales_rep_id)
RunQuotes(origin, ids) ==
    {{QuoteRow(origin, k, ids[k], upd[k], 1, rep) : k \in present} :
        present \in SUBSET QuoteNos,
        upd \in [QuoteNos -> Times],
        rep \in {NULL, 1}}

\* the quotes tables of the timestamp scenarios: one key, every combination
\* of a missing or present updated_at and created_at
TimestampQuotes(origin) ==
    {{}} \cup
    {{QuoteRow(origin, "Q1", 1, upd, crt, NULL)} :
        upd \in {NULL} \cup Times, crt \in {NULL} \cup Times}

\* what the file at a source path is: a database, no file (or one that may
\* not be read: shutil.copy2 raises), or a file that is no SQLite database
FileStates == {"ok", "missing", "corrupt"}

\* the source files of a run in which one of them cannot be used
UnusableFiles ==
    {f \in [{"main", "copy"} -> FileStates] : \E o \in DOMAIN f : f[o] # "ok"}

\* the content of a file left at the output path by an earlier merge
StaleDb ==
    [quotes        |-> <<QuoteRow("stale", "Q0", 1, 1, 1, NULL)>>,
     tasks         |-> <<RelatedRow("stale", "tasks", 1, 1)>>,
     vendor_quotes |-> <<>>,
     notes         |-> <<>>,
     events        |-> <<>>,
     email_history |-> <<>>,
     default_tasks |-> <<DefaultTaskRow("stale", 1)>>]

(* ------------------------------- state -------------------------------- *)

VARIABLES
    invocation,         \* which call of execute_merge on the object this is
    files,              \* origin -> what the file at the source path is
    main_db,            \* source A: the reference database
    copy_db,            \* source B
    backups,            \* the backup copies create_backup has written
    output_db,          \* the output database as the output connection sees it
    output_disk,        \* the committed content of the output database
    output_file,        \* the file at the output path: "absent", "stale", "new"
    output_tables,      \* how many table definitions the output file holds
    open_conns,         \* the connections opened and not closed
    pc,                 \* where execute_merge is
    quote_decisions,    \* quote_no -> decision record
    decision_order,     \* insertion order of quote_decisions
    quote_id_mapping,   \* "<origin>_<old id>" -> [new_id, quote_no, is_winner]
    merge_stats,        \* the counters of the report
    cursor,             \* the position of the running loop
    records_imported,   \* local of merge_related_table
    records_deduplicated,
    raised,             \* the exception execute_merge propagates, or "none"
    violations          \* result of PRAGMA foreign_key_check

vars == <<invocation, files, main_db, copy_db, backups, output_db, output_disk,
          output_file, output_tables, open_conns, pc,
          quote_decisions, decision_order, quote_id_mapping, merge_stats,
          cursor, records_imported, records_deduplicated, raised, violations>>

\* merge_stats as __init__ sets it
InitialStats ==
    [quotes_merged |-> 0, quotes_deduplicated |-> 0,
     tasks_merged |-> 0, tasks_deduplicated |-> 0,
     vendor_quotes_merged |-> 0, vendor_quotes_deduplicated |-> 0,
     notes_merged |-> 0, notes_deduplicated |-> 0,
     events_merged |-> 0, events_deduplicated |-> 0]

\* an output database without tables
NoDb == [quotes |-> <<>>, tasks |-> <<>>, vendor_quotes |-> <<>>,
         notes |-> <<>>, events |-> <<>>, email_history |-> <<>>,
         default_tasks |-> <<>>]

\* the readable content of a source file that is no database
NoSourceDb == [NoDb EXCEPT !.quotes = {}]

\* the position of a loop that is not running
NoCursor == [table |-> 0, db |-> 0, row |-> 0]

\* the merge scenarios: both sources are databases, a file of an earlier merge
\* lies at the output path
InitRun ==
    /\ \E ids \in IdAssignments :
          /\ main_db \in {SourceDb("main", q) :
                            q \in RunQuotes("main", [k \in QuoteNos |->
                                    IF k = "Q1" THEN 1 ELSE 2])}
          /\ copy_db \in {SourceDb("copy", q) : q \in RunQuotes("copy", ids)}
    /\ files = [o \in {"main", "copy"} |-> "ok"]
    /\ output_file = "stale"

\* the timestamp scenarios: both sources are databases, the output path is
\* free or taken
InitTimestamps ==
    /\ main_db \in {SourceDb("main", q) : q \in TimestampQuotes("main")}
    /\ copy_db \in {SourceDb("copy", q) : q \in TimestampQuotes("copy")}
    /\ files = [o \in {"main", "copy"} |-> "ok"]
    /\ output_file \in {"absent", "stale"}

\* the scenarios of a source file that cannot be used
InitFiles ==
    /\ files \in UnusableFiles
    /\ main_db = IF files["main"] = "ok" THEN SourceDb("main", {})
                 ELSE NoSourceDb
    /\ copy_db = IF files["copy"] = "ok" THEN SourceDb("copy", {})
                 ELSE NoSourceDb
    /\ output_file \in {"absent", "stale"}

\* the state of a new merger object before execute_merge
InitMerger ==
    /\ invocation = 1
    /\ backups = {}
    /\ output_db = NoDb
    /\ output_disk = IF output_file = "stale" THEN StaleDb ELSE NoDb
    /\ output_tables = IF output_file = "stale" THEN Len(SchemaTables) ELSE 0
    /\ open_conns = {}
    /\ pc = "start"
    /\ quote_decisions = <<>>
    /\ decision_order = <<>>
    /\ quote_id_mapping = <<>>
    /\ merge_stats = InitialStats
    /\ cursor = NoCursor
    /\ records_imported = 0
    /\ records_deduplicated = 0
    /\ raised = "none"
    /\ violations = 0

Init == (InitRun \/ InitTimestamps \/ InitFiles) /\ InitMerger

(* ------------------------- analyze_quote_overlaps ---------------------- *)

\* the database an origin names
Db(origin) == IF origin = "main" THEN main_db ELSE copy_db

\* {row['quote_no']: dict(row)} over SELECT id, quote_no, updated_at, created_at
QuotesByNo(db) ==
    [k \in {r.quote_no : r \in db.quotes} |->
        LET row == CHOOSE r \in db.quotes : r.quote_no = k IN
        [id |-> row.id, quote_no |-> row.quote_no,
         updated_at |-> row.updated_at, created_at |-> row.created_at]]

\* EffectiveTimestamp as quote['created_at'] or quote['updated_at']
EffectiveTimestampCreatedFirst(quote) ==
    IF quote.created_at # NULL THEN quote.created_at ELSE quote.updated_at

\* quote['updated_at'] or quote['created_at']
EffectiveTimestamp(quote) ==
    IF quote.updated_at # NULL THEN quote.updated_at ELSE quote.created_at

\* the comparison copy_updated > main_updated is defined on two timestamps;
\* with a None on either side Python raises TypeError
Comparable(main_quote, copy_quote) ==
    /\ EffectiveTimestamp(main_quote) # NULL
    /\ EffectiveTimestamp(copy_quote) # NULL

\* Winner with the comparison left out: main always wins
WinnerAlwaysMain(main_quote, copy_quote) == "main"

\* most recent update wins; otherwise main
Winner(main_quote, copy_quote) ==
    IF EffectiveTimestamp(copy_quote) > EffectiveTimestamp(main_quote)
    THEN "copy" ELSE "main"

\* the keys of both sources
Overlapping(main_quotes, copy_quotes) == DOMAIN main_quotes \cap DOMAIN copy_quotes

\* MainOnly without the set difference: every key of main, overlapping or not
MainOnlyAll(main_quotes, copy_quotes) == DOMAIN main_quotes

\* the keys only main has
MainOnly(main_quotes, copy_quotes) == DOMAIN main_quotes \ DOMAIN copy_quotes

\* CopyOnly with the copy-only keys forgotten
CopyOnlyDropped(main_quotes, copy_quotes) == {}

\* the keys only copy has
CopyOnly(main_quotes, copy_quotes) == DOMAIN copy_quotes \ DOMAIN main_quotes

\* the keys quote_decisions gets an entry for
DecisionKeys(main_quotes, copy_quotes) ==
    Overlapping(main_quotes, copy_quotes)
        \cup MainOnly(main_quotes, copy_quotes)
        \cup CopyOnly(main_quotes, copy_quotes)

\* Decision with winner_data always taken from main_quotes where it can be
DecisionDataFromMain(quote_no, main_quotes, copy_quotes) ==
    IF quote_no \in Overlapping(main_quotes, copy_quotes)
    THEN [status |-> "overlapping",
          winner |-> Winner(main_quotes[quote_no], copy_quotes[quote_no]),
          winner_data |-> main_quotes[quote_no]]
    ELSE IF quote_no \in MainOnly(main_quotes, copy_quotes)
    THEN [status |-> "main_only", winner |-> "main",
          winner_data |-> main_quotes[quote_no]]
    ELSE [status |-> "copy_only", winner |-> "copy",
          winner_data |-> copy_quotes[quote_no]]

\* the decision record of one key
Decision(quote_no, main_quotes, copy_quotes) ==
    IF quote_no \in Overlapping(main_quotes, copy_quotes)
    THEN LET winner == Winner(main_quotes[quote_no], copy_quotes[quote_no]) IN
         [status |-> "overlapping", winner |-> winner,
          winner_data |-> IF winner = "copy" THEN copy_quotes[quote_no]
                          ELSE main_quotes[quote_no]]
    ELSE IF quote_no \in MainOnly(main_quotes, copy_quotes)
    THEN [status |-> "main_only", winner |-> "main",
          winner_data |-> main_quotes[quote_no]]
    ELSE [status |-> "copy_only", winner |-> "copy",
          winner_data |-> copy_quotes[quote_no]]

\* the orders in which a loop over a set may visit it
Orders(S) ==
    {s \in [1..Cardinality(S) -> S] : \A i, j \in DOMAIN s : i # j => s[i] # s[j]}

\* the insertion orders of quote_decisions: the overlapping keys, then the
\* main-only keys, then the copy-only keys, each set in an order of its own
InsertionOrders(main_quotes, copy_quotes) ==
    {a \o b \o c : a \in Orders(Overlapping(main_quotes, copy_quotes)),
                   b \in Orders(MainOnly(main_quotes, copy_quotes)),
                   c \in Orders(CopyOnly(main_quotes, copy_quotes))}

(* ------------------------------ merge_quotes --------------------------- *)

\* MappingKey without the origin
MappingKeyIdOnly(db_name, id) == ToString(id)

\* f"{db_name}_{id}"
MappingKey(db_name, id) == db_name \o "_" \o ToString(id)

\* dict[key] = value
Put(dict, key, value) ==
    [x \in DOMAIN dict \cup {key} |-> IF x = key THEN value ELSE dict[x]]

\* SELECT * FROM quotes WHERE id = ?
FullQuote(db, old_id) == CHOOSE r \in db.quotes : r.id = old_id

\* fetchone() finds a row with that id
Found(db, old_id) == \E r \in db.quotes : r.id = old_id

\* the row INSERT INTO quotes (customer, ..., updated_at) writes: the eleven
\* listed columns from full_quote, a fresh id, every other column its default
InsertedQuote(full_quote, new_id) ==
    [id                |-> new_id,
     customer          |-> full_quote.customer,
     quote_no          |-> full_quote.quote_no,
     description       |-> full_quote.description,
     sales_rep         |-> full_quote.sales_rep,
     project_sheet_url |-> full_quote.project_sheet_url,
     mpsf_link         |-> full_quote.mpsf_link,
     folder_link       |-> full_quote.folder_link,
     method_link       |-> full_quote.method_link,
     hidden            |-> full_quote.hidden,
     created_at        |-> full_quote.created_at,
     updated_at        |-> full_quote.updated_at,
     sales_rep_id      |-> NULL]

\* the other origin
Loser(winner) == IF winner = "main" THEN "copy" ELSE "main"

\* MappingAfter without the loser's entry
MappingAfterWithoutLoser(mapping, quote_no, decision, new_id, loser_quotes) ==
    Put(mapping, MappingKey(decision.winner, decision.winner_data.id),
        [new_id |-> new_id, quote_no |-> quote_no, is_winner |-> TRUE])

\* MappingAfter with the winner's old id in place of lastrowid
MappingAfterOldId(mapping, quote_no, decision, new_id, loser_quotes) ==
    LET winner == decision.winner
        old_id == decision.winner_data.id
        with_winner ==
            Put(mapping, MappingKey(winner, old_id),
                [new_id |-> old_id, quote_no |-> quote_no, is_winner |-> TRUE])
    IN  IF decision.status = "overlapping" /\ quote_no \in DOMAIN loser_quotes
        THEN Put(with_winner, MappingKey(Loser(winner), loser_quotes[quote_no].id),
                 [new_id |-> old_id, quote_no |-> quote_no, is_winner |-> FALSE])
        ELSE with_winner

\* MappingAfter with the first id of the output in place of lastrowid
MappingAfterFirstId(mapping, quote_no, decision, new_id, loser_quotes) ==
    LET winner == decision.winner
        with_winner ==
            Put(mapping, MappingKey(winner, decision.winner_data.id),
                [new_id |-> 1, quote_no |-> quote_no, is_winner |-> TRUE])
    IN  IF decision.status = "overlapping" /\ quote_no \in DOMAIN loser_quotes
        THEN Put(with_winner, MappingKey(Loser(winner), loser_quotes[quote_no].id),
                 [new_id |-> 1, quote_no |-> quote_no, is_winner |-> FALSE])
        ELSE with_winner

\* quote_id_mapping after the winner's entry and, for an overlapping key whose
\* loser row is found by business key, the loser's entry
MappingAfter(mapping, quote_no, decision, new_id, loser_quotes) ==
    LET winner == decision.winner
        with_winner ==
            Put(mapping, MappingKey(winner, decision.winner_data.id),
                [new_id |-> new_id, quote_no |-> quote_no, is_winner |-> TRUE])
    IN  IF decision.status = "overlapping" /\ quote_no \in DOMAIN loser_quotes
        THEN Put(with_winner, MappingKey(Loser(winner), loser_quotes[quote_no].id),
                 [new_id |-> new_id, quote_no |-> quote_no, is_winner |-> FALSE])
        ELSE with_winner

\* StatsAfterQuote counting every overlapping key as deduplicated
StatsAfterQuoteCountsOverlap(stats, quote_no, decision, loser_quotes) ==
    [stats EXCEPT
        !.quotes_deduplicated =
            IF decision.status = "overlapping" THEN @ + 1 ELSE @,
        !.quotes_merged = @ + 1]

\* merge_stats after one quote
StatsAfterQuote(stats, quote_no, decision, loser_quotes) ==
    [stats EXCEPT
        !.quotes_deduplicated =
            IF decision.status = "overlapping" /\ quote_no \in DOMAIN loser_quotes
            THEN @ + 1 ELSE @,
        !.quotes_merged = @ + 1]

(* --------------------------- merge_related_table ----------------------- *)

\* columns = [col[1] for col in PRAGMA table_info if col[1] != 'id']
Columns(table_name) == SelectSeq(TableColumns(table_name), LAMBDA c : c # "id")

\* InsertedRelated with quote_id copied like any other column
InsertedRelatedUnmapped(table_name, row, mapping_info, new_id) ==
    [c \in {"id"} \cup Range(Columns(table_name)) |->
        IF c = "id" THEN new_id ELSE row[c]]

\* the values of the inserted row: quote_id is the remapped id, every other
\* listed column is copied by name; the output assigns the id
InsertedRelated(table_name, row, mapping_info, new_id) ==
    [c \in {"id"} \cup Range(Columns(table_name)) |->
        IF c = "id" THEN new_id
        ELSE IF c = "quote_id" THEN mapping_info.new_id
        ELSE row[c]]

\* RelatedOutcome without the is_winner test: rows of losers are imported
RelatedOutcomeImportsLosers(mapping, quote_id_key) ==
    IF quote_id_key \in DOMAIN mapping THEN "import" ELSE "skip"

\* RelatedOutcome counting a row without a mapping entry as deduplicated
RelatedOutcomeCountsDangling(mapping, quote_id_key) ==
    IF quote_id_key \in DOMAIN mapping /\ mapping[quote_id_key].is_winner
    THEN "import" ELSE "deduplicate"

\* what merge_related_table does with a row: import it when its key maps to a
\* winner, count it as deduplicated when its key maps to a loser, skip it
\* without counting when its key is not in the mapping
RelatedOutcome(mapping, quote_id_key) ==
    IF quote_id_key \in DOMAIN mapping
    THEN IF mapping[quote_id_key].is_winner THEN "import" ELSE "deduplicate"
    ELSE "skip"

\* the rows SELECT * FROM table reads from the db-th origin
SourceRows(table, db) == Db(Origins[db])[RelatedTables[table]]

\* the position of the next row of the loops over both origins at or after
\* (db, row); db = Len(Origins) + 1 when both are exhausted
RECURSIVE Position(_, _, _)
Position(table, db, row) ==
    IF db > Len(Origins) THEN [table |-> table, db |-> db, row |-> 0]
    ELSE IF row <= Len(SourceRows(table, db))
    THEN [table |-> table, db |-> db, row |-> row]
    ELSE Position(table, db + 1, 1)

\* PRAGMA foreign_key_check: the dependent rows whose quote_id is no quotes id
ForeignKeyViolations(db) ==
    LET ids == {db.quotes[i].id : i \in DOMAIN db.quotes}
        bad(t) == {i \in DOMAIN db[t] : db[t][i].quote_id \notin ids}
    IN  Cardinality(bad("tasks")) + Cardinality(bad("vendor_quotes"))
          + Cardinality(bad("notes")) + Cardinality(bad("events"))

(* ------------------------------ execute_merge -------------------------- *)

\* create_backup without the copy of copy_db
CreateBackupMainOnly ==
    /\ pc = "start"
    /\ \A o \in DOMAIN files : files[o] # "missing"
    /\ backups' = {[of |-> "main", content |-> main_db]}
    /\ pc' = "analyze"
    /\ UNCHANGED <<invocation, files, main_db, copy_db, output_db, output_disk,
                   output_file, output_tables, open_conns, quote_decisions,
                   decision_order, quote_id_mapping, merge_stats, cursor,
                   records_imported, records_deduplicated, raised, violations>>

\* create_backup: copies of both source files
CreateBackup ==
    /\ pc = "start"
    /\ \A o \in DOMAIN files : files[o] # "missing"
    /\ backups' = {[of |-> "main", content |-> main_db],
                   [of |-> "copy", content |-> copy_db]}
    /\ pc' = "analyze"
    /\ UNCHANGED <<invocation, files, main_db, copy_db, output_db, output_disk,
                   output_file, output_tables, open_conns, quote_decisions,
                   decision_order, quote_id_mapping, merge_stats, cursor,
                   records_imported, records_deduplicated, raised, violations>>

\* create_backup raises: shutil.copy2 copies main, then copy, and raises at
\* the first file that is not there; execute_merge calls it outside its try
CreateBackupRaises ==
    /\ pc = "start"
    /\ \E o \in DOMAIN files : files[o] = "missing"
    /\ backups' = IF files["main"] = "missing" THEN {}
                  ELSE {[of |-> "main", content |-> main_db]}
    /\ raised' = "FileNotFoundError"
    /\ pc' = "raised"
    /\ UNCHANGED <<invocation, files, main_db, copy_db, output_db, output_disk,
                   output_file, output_tables, open_conns, quote_decisions,
                   decision_order, quote_id_mapping, merge_stats, cursor,
                   records_imported, records_deduplicated, violations>>

\* analyze_quote_overlaps returns quote_decisions
AnalyzeQuoteOverlaps ==
    /\ pc = "analyze"
    /\ \A o \in DOMAIN files : files[o] = "ok"
    /\ LET main_quotes == QuotesByNo(main_db)
           copy_quotes == QuotesByNo(copy_db)
       IN  /\ \A k \in Overlapping(main_quotes, copy_quotes) :
                  Comparable(main_quotes[k], copy_quotes[k])
           /\ quote_decisions' =
                  [k \in DecisionKeys(main_quotes, copy_quotes) |->
                      Decision(k, main_quotes, copy_quotes)]
           /\ decision_order' \in InsertionOrders(main_quotes, copy_quotes)
    /\ pc' = "init_output"
    /\ UNCHANGED <<invocation, files, main_db, copy_db, backups, output_db, output_disk,
                   output_file, output_tables, open_conns,
                   quote_id_mapping, merge_stats, cursor, records_imported,
                   records_deduplicated, raised, violations>>

\* analyze_quote_overlaps compares a missing timestamp: TypeError, outside the
\* try block of execute_merge; the two connections of the analysis are closed
\* on its normal path only
AnalyzeRaises ==
    /\ pc = "analyze"
    /\ \A o \in DOMAIN files : files[o] = "ok"
    /\ LET main_quotes == QuotesByNo(main_db)
           copy_quotes == QuotesByNo(copy_db)
       IN  \E k \in Overlapping(main_quotes, copy_quotes) :
              ~Comparable(main_quotes[k], copy_quotes[k])
    /\ raised' = "TypeError"
    /\ open_conns' = {"main_conn", "copy_conn"}
    /\ pc' = "raised"
    /\ UNCHANGED <<invocation, files, main_db, copy_db, backups, output_db, output_disk,
                   output_file, output_tables,
                   quote_decisions, decision_order, quote_id_mapping,
                   merge_stats, cursor, records_imported,
                   records_deduplicated, violations>>

\* analyze_quote_overlaps reads a file that is no database: sqlite3 connects
\* to both files and raises DatabaseError at the first SELECT on the bad one
AnalyzeUnreadable ==
    /\ pc = "analyze"
    /\ \E o \in DOMAIN files : files[o] = "corrupt"
    /\ raised' = "DatabaseError"
    /\ open_conns' = {"main_conn", "copy_conn"}
    /\ pc' = "raised"
    /\ UNCHANGED <<invocation, files, main_db, copy_db, backups, output_db, output_disk,
                   output_file, output_tables,
                   quote_decisions, decision_order, quote_id_mapping,
                   merge_stats, cursor, records_imported,
                   records_deduplicated, violations>>

\* InitOutput without os.remove: the tables are created in the file that is
\* already at the output path
InitOutputKeepsFile ==
    /\ pc = "init_output"
    /\ output_file' = "new"
    /\ output_tables' = Len(SchemaTables)
    /\ output_db' = output_disk
    /\ open_conns' = {"output_conn", "main_conn", "copy_conn"}
    /\ quote_id_mapping' = <<>>
    /\ cursor' = [table |-> 0, db |-> 0, row |-> 1]
    /\ pc' = "merge_quotes"
    /\ UNCHANGED <<invocation, files, main_db, copy_db, backups, output_disk,
                   quote_decisions, decision_order, merge_stats,
                   records_imported, records_deduplicated, raised, violations>>

\* InitOutput with os.remove and sqlite3.connect on the path of main
InitOutputRemovesSource ==
    /\ pc = "init_output"
    /\ main_db' = NoSourceDb
    /\ open_conns' = {"output_conn", "main_conn", "copy_conn"}
    /\ quote_id_mapping' = <<>>
    /\ cursor' = [table |-> 0, db |-> 0, row |-> 1]
    /\ pc' = "merge_quotes"
    /\ UNCHANGED <<invocation, files, copy_db, backups, output_db, output_disk,
                   output_file, output_tables, quote_decisions,
                   decision_order, merge_stats, records_imported,
                   records_deduplicated, raised, violations>>

\* the output file is replaced by a new database with the tables of main, all
\* empty; the table definitions are committed as they are applied
InitOutput ==
    /\ pc = "init_output"
    /\ output_file' = "new"
    /\ output_tables' = Len(SchemaTables)
    /\ output_db' = NoDb
    /\ output_disk' = NoDb
    /\ open_conns' = {"output_conn", "main_conn", "copy_conn"}
    /\ quote_id_mapping' = <<>>
    /\ cursor' = [table |-> 0, db |-> 0, row |-> 1]
    /\ pc' = "merge_quotes"
    /\ UNCHANGED <<invocation, files, main_db, copy_db, backups, quote_decisions,
                   decision_order,
                   merge_stats, records_imported, records_deduplicated,
                   raised, violations>>

\* os.remove raises on the file at the output path (no permission, or a
\* directory): the exception leaves execute_merge before sqlite3.connect
RemoveOutputRaises ==
    /\ pc = "init_output"
    /\ output_file = "stale"
    /\ raised' = "OSError"
    /\ pc' = "raised"
    /\ UNCHANGED <<invocation, files, main_db, copy_db, backups, output_db, output_disk,
                   output_file, output_tables, open_conns, quote_decisions,
                   decision_order, quote_id_mapping, merge_stats, cursor,
                   records_imported, records_deduplicated, violations>>

\* a table definition fails to apply: the file at the output path was removed
\* and the definitions before the failing one are applied and committed; the
\* exception leaves execute_merge before its try block, past the close of
\* main_conn and with no close of output_conn
CloneSchemaRaises ==
    /\ pc = "init_output"
    /\ \E failing \in DOMAIN SchemaTables : output_tables' = failing - 1
    /\ output_file' = "new"
    /\ output_db' = NoDb
    /\ output_disk' = NoDb
    /\ open_conns' = {"output_conn", "main_conn"}
    /\ raised' = "OperationalError"
    /\ pc' = "raised"
    /\ UNCHANGED <<invocation, files, main_db, copy_db, backups, quote_decisions,
                   decision_order, quote_id_mapping, merge_stats, cursor,
                   records_imported, records_deduplicated, violations>>

\* one pass of the loop of merge_quotes
MergeQuote ==
    /\ pc = "merge_quotes"
    /\ cursor.row <= Len(decision_order)
    /\ LET decision == quote_decisions[decision_order[cursor.row]]
       IN  Found(Db(decision.winner), decision.winner_data.id)
    /\ LET quote_no == decision_order[cursor.row]
           decision == quote_decisions[quote_no]
           full_quote == FullQuote(Db(decision.winner), decision.winner_data.id)
           new_id == Len(output_db.quotes) + 1
           loser_quotes == QuotesByNo(Db(Loser(decision.winner)))
       IN  /\ output_db' = [output_db EXCEPT
                  !.quotes = Append(@, InsertedQuote(full_quote, new_id))]
           /\ quote_id_mapping' =
                  MappingAfter(quote_id_mapping, quote_no, decision, new_id,
                               loser_quotes)
           /\ merge_stats' =
                  StatsAfterQuote(merge_stats, quote_no, decision, loser_quotes)
    /\ cursor' = [cursor EXCEPT !.row = @ + 1]
    /\ UNCHANGED <<invocation, files, main_db, copy_db, backups, output_disk, output_file,
                   output_tables, open_conns, pc, quote_decisions,
                   decision_order, records_imported, records_deduplicated,
                   raised, violations>>

\* MergeQuotesReturn before the loop over the decisions has ended
MergeQuotesReturnEarly ==
    /\ pc = "merge_quotes"
    /\ pc' = "merge_related"
    /\ cursor' = Position(1, 1, 1)
    /\ records_imported' = 0
    /\ records_deduplicated' = 0
    /\ UNCHANGED <<invocation, files, main_db, copy_db, backups, output_db, output_disk,
                   output_file, output_tables, open_conns,
                   quote_decisions, decision_order, quote_id_mapping,
                   merge_stats, raised, violations>>

\* merge_quotes closes its connections and returns; merge_related_table
\* starts on the first table and opens its own
MergeQuotesReturn ==
    /\ pc = "merge_quotes"
    /\ cursor.row > Len(decision_order)
    /\ pc' = "merge_related"
    /\ cursor' = Position(1, 1, 1)
    /\ records_imported' = 0
    /\ records_deduplicated' = 0
    /\ UNCHANGED <<invocation, files, main_db, copy_db, backups, output_db, output_disk,
                   output_file, output_tables, open_conns,
                   quote_decisions, decision_order, quote_id_mapping,
                   merge_stats, raised, violations>>

\* one pass of the inner loop of merge_related_table
MergeRelatedRow ==
    /\ pc = "merge_related"
    /\ cursor.db <= Len(Origins)
    /\ LET table_name == RelatedTables[cursor.table]
           db_name == Origins[cursor.db]
           row == SourceRows(cursor.table, cursor.db)[cursor.row]
           quote_id_key == MappingKey(db_name, row.quote_id)
           outcome == RelatedOutcome(quote_id_mapping, quote_id_key)
       IN  /\ output_db' =
                  IF outcome = "import"
                  THEN [output_db EXCEPT ![table_name] =
                           Append(@, InsertedRelated(table_name, row,
                                         quote_id_mapping[quote_id_key],
                                         Len(@) + 1))]
                  ELSE output_db
           /\ records_imported' =
                  IF outcome = "import" THEN records_imported + 1
                  ELSE records_imported
           /\ records_deduplicated' =
                  IF outcome = "deduplicate" THEN records_deduplicated + 1
                  ELSE records_deduplicated
    /\ cursor' = Position(cursor.table, cursor.db, cursor.row + 1)
    /\ UNCHANGED <<invocation, files, main_db, copy_db, backups, output_disk, output_file,
                   output_tables, open_conns, pc, quote_decisions,
                   decision_order, quote_id_mapping, merge_stats, raised,
                   violations>>

\* MergeRelatedReturn with counters that are not set back per table
MergeRelatedReturnKeepsCounters ==
    /\ pc = "merge_related"
    /\ cursor.db > Len(Origins)
    /\ LET table_name == RelatedTables[cursor.table] IN
       merge_stats' = [merge_stats EXCEPT
           ![table_name \o "_merged"] = records_imported,
           ![table_name \o "_deduplicated"] = records_deduplicated]
    /\ IF cursor.table < Len(RelatedTables)
       THEN /\ cursor' = Position(cursor.table + 1, 1, 1)
            /\ open_conns' = open_conns
            /\ pc' = pc
       ELSE /\ cursor' = NoCursor
            /\ open_conns' = {"output_conn", "main_conn"}
            /\ pc' = "default_tasks"
    /\ UNCHANGED <<invocation, files, main_db, copy_db, backups, output_db, output_disk,
                   output_file, output_tables, records_imported,
                   records_deduplicated,
                   quote_decisions, decision_order, quote_id_mapping, raised,
                   violations>>

\* merge_related_table closes its connections, stores its counters and
\* returns; the next table starts, or the copy of default_tasks after the last
\* table, which opens main again
MergeRelatedReturn ==
    /\ pc = "merge_related"
    /\ cursor.db > Len(Origins)
    /\ LET table_name == RelatedTables[cursor.table] IN
       merge_stats' = [merge_stats EXCEPT
           ![table_name \o "_merged"] = records_imported,
           ![table_name \o "_deduplicated"] = records_deduplicated]
    /\ IF cursor.table < Len(RelatedTables)
       THEN /\ cursor' = Position(cursor.table + 1, 1, 1)
            /\ open_conns' = open_conns
            /\ pc' = pc
       ELSE /\ cursor' = NoCursor
            /\ open_conns' = {"output_conn", "main_conn"}
            /\ pc' = "default_tasks"
    /\ records_imported' = 0
    /\ records_deduplicated' = 0
    /\ UNCHANGED <<invocation, files, main_db, copy_db, backups, output_db, output_disk,
                   output_file, output_tables,
                   quote_decisions, decision_order, quote_id_mapping, raised,
                   violations>>

\* the row INSERT INTO default_tasks (label, sort_order, is_separator,
\* created_at) writes
InsertedDefaultTask(row, new_id) ==
    [id |-> new_id, label |-> row.label, sort_order |-> row.sort_order,
     is_separator |-> row.is_separator, created_at |-> row.created_at]

\* MergeDefaultTasks reading default_tasks from copy
MergeDefaultTasksFromCopy ==
    /\ pc = "default_tasks"
    /\ output_db' = [output_db EXCEPT !.default_tasks =
           [i \in DOMAIN copy_db.default_tasks |->
               InsertedDefaultTask(copy_db.default_tasks[i], i)]]
    /\ open_conns' = {"output_conn"}
    /\ pc' = "commit"
    /\ UNCHANGED <<invocation, files, main_db, copy_db, backups, output_disk,
                   output_file, output_tables, quote_decisions,
                   decision_order, quote_id_mapping, merge_stats, cursor,
                   records_imported, records_deduplicated, raised, violations>>

\* default_tasks is copied from main
MergeDefaultTasks ==
    /\ pc = "default_tasks"
    /\ output_db' = [output_db EXCEPT !.default_tasks =
           [i \in DOMAIN main_db.default_tasks |->
               InsertedDefaultTask(main_db.default_tasks[i], i)]]
    /\ open_conns' = {"output_conn"}
    /\ pc' = "commit"
    /\ UNCHANGED <<invocation, files, main_db, copy_db, backups, output_disk, output_file,
                   output_tables, quote_decisions,
                   decision_order, quote_id_mapping, merge_stats, cursor,
                   records_imported, records_deduplicated, raised, violations>>

\* output_conn.commit()
Commit ==
    /\ pc = "commit"
    /\ output_disk' = output_db
    /\ pc' = "validate"
    /\ UNCHANGED <<invocation, files, main_db, copy_db, backups, output_db, output_file,
                   output_tables, open_conns, quote_decisions,
                   decision_order, quote_id_mapping, merge_stats, cursor,
                   records_imported, records_deduplicated, raised, violations>>

\* the count of quotes, the integrity scan and the report; the finally block
\* closes output_conn
Validate ==
    /\ pc = "validate"
    /\ violations' = ForeignKeyViolations(output_db)
    /\ open_conns' = open_conns \ {"output_conn"}
    /\ pc' = "done"
    /\ UNCHANGED <<invocation, files, main_db, copy_db, backups, output_db, output_disk,
                   output_file, output_tables,
                   quote_decisions, decision_order, quote_id_mapping,
                   merge_stats, cursor, records_imported,
                   records_deduplicated, raised>>

\* the phases of the try block before the commit
MergePhases == {"merge_quotes", "merge_related", "default_tasks"}

\* Fail without output_conn.rollback()
FailWithoutRollback ==
    /\ pc \in MergePhases
    /\ raised' = "Exception"
    /\ pc' = "raised"
    /\ quote_id_mapping' = <<>>
    /\ cursor' = NoCursor
    /\ records_imported' = 0
    /\ records_deduplicated' = 0
    /\ open_conns' = open_conns \ {"output_conn"}
    /\ UNCHANGED <<invocation, files, main_db, copy_db, backups, output_db, output_disk,
                   output_file, output_tables,
                   quote_decisions, decision_order, merge_stats, violations>>

\* an exception in the try block: rollback, re-raise, close of output_conn;
\* the connections of the method that raised stay open
Fail ==
    /\ pc \in MergePhases
    /\ output_db' = output_disk
    /\ raised' = "Exception"
    /\ pc' = "raised"
    /\ quote_id_mapping' = <<>>
    /\ cursor' = NoCursor
    /\ records_imported' = 0
    /\ records_deduplicated' = 0
    /\ open_conns' = open_conns \ {"output_conn"}
    /\ UNCHANGED <<invocation, files, main_db, copy_db, backups, output_disk, output_file,
                   output_tables, quote_decisions,
                   decision_order, merge_stats, violations>>

Next ==
    \/ CreateBackup
    \/ CreateBackupRaises
    \/ AnalyzeQuoteOverlaps
    \/ AnalyzeRaises
    \/ AnalyzeUnreadable
    \/ InitOutput
    \/ RemoveOutputRaises
    \/ CloneSchemaRaises
    \/ MergeQuote
    \/ MergeQuotesReturn
    \/ MergeRelatedRow
    \/ MergeRelatedReturn
    \/ MergeDefaultTasks
    \/ Commit
    \/ Validate
    \/ Fail

Spec == Init /\ [][Next]_vars

(* ---------------------- a database merged with its copy ---------------- *)

\* source B is a file copy of source A
InitIdentical ==
    /\ main_db \in {SourceDb("main", q) :
                      q \in TimestampQuotes("main") \cup
                            RunQuotes("main", [k \in QuoteNos |->
                                IF k = "Q1" THEN 1 ELSE 2])}
    /\ copy_db = main_db
    /\ files = [o \in {"main", "copy"} |-> "ok"]
    /\ output_file = "stale"

InitSame == (InitIdentical \/ InitFiles) /\ InitMerger

\* execute_merge on a database and its copy
SpecSame == InitSame /\ [][Next]_vars

(* ------------------- sources written to during the merge --------------- *)

\* the application deletes a quote of a source (Quote.delete) between the
\* analysis and the end of merge_quotes; its connection does not enforce
\* foreign keys, so the dependent rows stay
SourceDrift ==
    /\ pc \in {"init_output", "merge_quotes"}
    /\ \A b \in backups : b.content = Db(b.of)
    /\ \E origin \in {"main", "copy"} : \E r \in Db(origin).quotes :
          /\ main_db' = IF origin = "main"
                        THEN [main_db EXCEPT !.quotes = @ \ {r}] ELSE main_db
          /\ copy_db' = IF origin = "copy"
                        THEN [copy_db EXCEPT !.quotes = @ \ {r}] ELSE copy_db
    /\ UNCHANGED <<invocation, files, backups, output_db, output_disk, output_file,
                   output_tables, open_conns, pc, quote_decisions,
                   decision_order, quote_id_mapping, merge_stats, cursor,
                   records_imported, records_deduplicated, raised, violations>>

\* merge_quotes finds no row with the winner's id: full_quote is None and the
\* subscript raises TypeError in the try block (rollback, re-raise, close)
MergeQuoteRaises ==
    /\ pc = "merge_quotes"
    /\ cursor.row <= Len(decision_order)
    /\ LET decision == quote_decisions[decision_order[cursor.row]]
       IN  ~Found(Db(decision.winner), decision.winner_data.id)
    /\ output_db' = output_disk
    /\ raised' = "TypeError"
    /\ pc' = "raised"
    /\ quote_id_mapping' = <<>>
    /\ cursor' = NoCursor
    /\ open_conns' = open_conns \ {"output_conn"}
    /\ UNCHANGED <<invocation, files, main_db, copy_db, backups, output_disk, output_file,
                   output_tables, quote_decisions, decision_order, merge_stats,
                   records_imported, records_deduplicated, violations>>

\* the scenarios of one business key and of unusable files
InitDrift == (InitTimestamps \/ InitFiles) /\ InitMerger

NextDrift ==
    \/ Next
    \/ SourceDrift
    \/ MergeQuoteRaises

\* execute_merge on sources the application is still writing to
SpecDrift == InitDrift /\ [][NextDrift]_vars

(* ------------------- execute_merge called more than once ---------------- *)

\* the caller calls execute_merge again on the same object after it returned
\* or raised: the locals are new, merge_stats is the dict __init__ made, the
\* files are as the earlier call left them
ExecuteMergeAgain ==
    /\ pc \in {"done", "raised"}
    /\ invocation < MaxInvocations
    /\ invocation' = invocation + 1
    /\ pc' = "start"
    /\ raised' = "none"
    /\ violations' = 0
    /\ output_file' = IF output_file = "new" THEN "stale" ELSE output_file
    /\ output_db' = NoDb
    /\ open_conns' = {}
    /\ quote_decisions' = <<>>
    /\ decision_order' = <<>>
    /\ quote_id_mapping' = <<>>
    /\ cursor' = NoCursor
    /\ records_imported' = 0
    /\ records_deduplicated' = 0
    /\ UNCHANGED <<files, main_db, copy_db, backups, output_disk,
                   output_tables, merge_stats>>

NextAgain ==
    \/ Next
    \/ ExecuteMergeAgain

\* calls of execute_merge, one after the other, on one merger object
SpecAgain == InitDrift /\ [][NextAgain]_vars

(* ------------------------------ properties ----------------------------- *)

\* the business keys of a source
KeysOf(db) == {r.quote_no : r \in db.quotes}

\* the quotes row of a source with business key k
RowOf(db, k) == CHOOSE r \in db.quotes : r.quote_no = k

\* effective timestamp: last-updated time if present, else created time
Effective(r) == IF r.updated_at = NULL THEN r.created_at ELSE r.updated_at

\* the committed output quotes rows with business key k
OutputRowsOf(k) ==
    {i \in DOMAIN output_disk.quotes : output_disk.quotes[i].quote_no = k}

\* the tables of a database hold no row
NoRows(db) ==
    /\ db.quotes = <<>>
    /\ \A i \in DOMAIN RelatedTables : db[RelatedTables[i]] = <<>>
    /\ db.default_tasks = <<>>

\* a row without its synthetic id and its parent reference
Payload(row) == [c \in DOMAIN row \ {"id", "quote_id"} |-> row[c]]

\* C1 (completeness): after a successful run every business key of either
\* source is in the output quotes table exactly once, no other key is there,
\* and the output rows have pairwise distinct ids
C1_Completeness ==
    pc = "done" =>
        /\ \A k \in QuoteNos :
              Cardinality(OutputRowsOf(k)) =
                  IF k \in KeysOf(main_db) \cup KeysOf(copy_db) THEN 1 ELSE 0
        /\ \A i \in DOMAIN output_disk.quotes :
              /\ output_disk.quotes[i].quote_no \in QuoteNos
              /\ output_disk.quotes[i].id # NULL
        /\ \A i, j \in DOMAIN output_disk.quotes :
              i # j => output_disk.quotes[i].id # output_disk.quotes[j].id

\* a successful run over an overlapping key and a key only copy has
C1_Witness ==
    /\ pc = "done"
    /\ KeysOf(main_db) \cap KeysOf(copy_db) # {}
    /\ KeysOf(copy_db) \ KeysOf(main_db) # {}
    /\ Len(output_disk.quotes) = 2

\* C2 (no orphans): at every point of a run, in the output as the connection
\* sees it and as committed, every row of tasks, vendor_quotes, notes and
\* events has the id of an output quotes row as its quote_id
C2_NoOrphans ==
    \A db \in {output_db, output_disk} :
        \A t \in DOMAIN RelatedTables :
            \A i \in DOMAIN db[RelatedTables[t]] :
                \E q \in DOMAIN db.quotes :
                    db.quotes[q].id = db[RelatedTables[t]][i].quote_id

\* dependent rows are being inserted under a remapped id that differs from
\* the id their parent had in its source
C2_Witness ==
    /\ pc = "merge_related"
    /\ \E i \in DOMAIN output_db.notes, j \in DOMAIN copy_db.notes :
          /\ Payload(output_db.notes[i]) = Payload(copy_db.notes[j])
          /\ output_db.notes[i].quote_id # copy_db.notes[j].quote_id

\* C3 (conservation): after a successful run the output quotes table has
\* |keys only in A| + |keys only in B| + |keys in both| rows
C3_Conservation ==
    pc = "done" =>
        Len(output_disk.quotes) =
            Cardinality(KeysOf(main_db) \ KeysOf(copy_db))
              + Cardinality(KeysOf(copy_db) \ KeysOf(main_db))
              + Cardinality(KeysOf(main_db) \cap KeysOf(copy_db))

\* a successful run over an overlapping key and a key only main has
C3_Witness ==
    /\ pc = "done"
    /\ KeysOf(main_db) \cap KeysOf(copy_db) # {}
    /\ KeysOf(main_db) \ KeysOf(copy_db) # {}
    /\ Len(output_disk.quotes) = 2

\* C4 (winner by timestamp): once the analyzer has returned, for every key of
\* both sources the side with the strictly greater effective timestamp is the
\* winner and the decision refers to that side's row
C4_LaterSideWins ==
    (pc \notin {"start", "analyze"} /\ raised # "TypeError") =>
        \A k \in KeysOf(main_db) \cap KeysOf(copy_db) :
            LET a == Effective(RowOf(main_db, k))
                b == Effective(RowOf(copy_db, k))
            IN  /\ k \in DOMAIN quote_decisions
                /\ (a # NULL /\ b # NULL /\ a > b) =>
                      /\ quote_decisions[k].winner = "main"
                      /\ quote_decisions[k].winner_data.id = RowOf(main_db, k).id
                /\ (a # NULL /\ b # NULL /\ b > a) =>
                      /\ quote_decisions[k].winner = "copy"
                      /\ quote_decisions[k].winner_data.id = RowOf(copy_db, k).id

\* the analyzer has decided a key whose copy row is later by its created_at
\* against main's updated_at
C4_Witness ==
    /\ pc = "init_output"
    /\ \E k \in KeysOf(main_db) \cap KeysOf(copy_db) :
          /\ RowOf(copy_db, k).updated_at = NULL
          /\ RowOf(main_db, k).updated_at # NULL
          /\ RowOf(copy_db, k).created_at > RowOf(main_db, k).updated_at
          /\ quote_decisions[k].winner = "copy"

\* the columns of quotes other than the synthetic id
QuoteDataColumns == Range(QuoteColumns) \ {"id"}

\* C5 (tie policy): after a successful run, for every key of both sources with
\* equal effective timestamps the winner is main and the output row of the key
\* equals main's row in every column but the id
C5_TieGoesToMain ==
    pc = "done" =>
        \A k \in KeysOf(main_db) \cap KeysOf(copy_db) :
            Effective(RowOf(main_db, k)) = Effective(RowOf(copy_db, k)) =>
                /\ quote_decisions[k].winner = "main"
                /\ \A i \in OutputRowsOf(k) : \A c \in QuoteDataColumns :
                      output_disk.quotes[i][c] = RowOf(main_db, k)[c]

\* C6 (full winner row): after a successful run every output quotes row
\* equals the row of its key in the winner's source in every column of the
\* cloned table but the id
C6_FullWinnerRow ==
    pc = "done" =>
        \A i \in DOMAIN output_disk.quotes :
            LET k == output_disk.quotes[i].quote_no
                w == RowOf(Db(quote_decisions[k].winner), k)
            IN  \A c \in QuoteDataColumns : output_disk.quotes[i][c] = w[c]

\* the rows of a dependent table of a database that reference parent id
\* quote_id and carry payload p
RowsWith(rows, quote_id, p) ==
    {i \in DOMAIN rows : rows[i].quote_id = quote_id /\ Payload(rows[i]) = p}

\* the payloads a dependent table holds in the output or in either source
PayloadsOf(table_name) ==
    UNION {{Payload(rows[i]) : i \in DOMAIN rows} :
              rows \in {output_disk[table_name], main_db[table_name],
                        copy_db[table_name]}}

\* C7 (dependents follow the winner): after a successful run, for every key
\* and every merged dependent table, the output rows under the key's new id
\* are the rows under the winner's original id in the winner's source, each
\* once and equal in every column but id and quote_id, and none of them is a
\* row that was under the loser's original id in the loser's source
C7_WinnersRowsOnly ==
    pc = "done" =>
        \A k \in KeysOf(main_db) \cup KeysOf(copy_db) :
            \A t \in DOMAIN RelatedTables :
                LET table_name == RelatedTables[t]
                    winner == quote_decisions[k].winner
                    old_id == RowOf(Db(winner), k).id
                    new_id == output_disk.quotes[CHOOSE i \in OutputRowsOf(k) : TRUE].id
                IN  /\ \A p \in PayloadsOf(table_name) :
                          Cardinality(RowsWith(output_disk[table_name], new_id, p))
                            = Cardinality(RowsWith(Db(winner)[table_name], old_id, p))
                    /\ k \in KeysOf(Db(Loser(winner))) =>
                          \A i \in DOMAIN Db(Loser(winner))[table_name] :
                              LET row == Db(Loser(winner))[table_name][i] IN
                              row.quote_id = RowOf(Db(Loser(winner)), k).id =>
                                  RowsWith(output_disk[table_name], new_id,
                                           Payload(row)) = {}

\* a successful run in which copy won an overlapping key: its tasks are in
\* the output and main's tasks of that key are not
C7_Witness ==
    /\ pc = "done"
    /\ \E k \in KeysOf(main_db) \cap KeysOf(copy_db) :
          /\ quote_decisions[k].winner = "copy"
          /\ \E i \in DOMAIN output_disk.tasks, j \in DOMAIN copy_db.tasks :
                /\ Payload(output_disk.tasks[i]) = Payload(copy_db.tasks[j])
                /\ copy_db.tasks[j].quote_id = RowOf(copy_db, k).id
          /\ \E j \in DOMAIN main_db.tasks :
                main_db.tasks[j].quote_id = RowOf(main_db, k).id

\* the row merge_related_table is about to process references no quote of its
\* own source
DanglingAtCursor ==
    /\ pc = "merge_related"
    /\ cursor.db <= Len(Origins)
    /\ LET row == SourceRows(cursor.table, cursor.db)[cursor.row] IN
       \A r \in Db(Origins[cursor.db]).quotes : r.id # row.quote_id

\* C8 (dangling rows are skipped): merge_related_table can always take its
\* step over a dependent row whose quote_id is the id of no quote of its own
\* source (the row raises nothing), and that step inserts nothing, leaves the
\* imported and the deduplicated counter as they are and goes on with the
\* merge
C8_DanglingSkipped ==
    /\ [](DanglingAtCursor => ENABLED MergeRelatedRow)
    /\ [][(DanglingAtCursor /\ raised' = "none") =>
             /\ output_db' = output_db
             /\ records_imported' = records_imported
             /\ records_deduplicated' = records_deduplicated
             /\ pc' = "merge_related"
             /\ cursor' # cursor]_vars

\* a run has finished although a dangling task of main was read, and the task
\* counters account for fewer rows than both sources hold
C8_Witness ==
    /\ pc = "done"
    /\ \E i \in DOMAIN main_db.tasks :
          \A r \in main_db.quotes : r.id # main_db.tasks[i].quote_id
    /\ main_db.quotes # {}
    /\ merge_stats.tasks_merged + merge_stats.tasks_deduplicated
          < Len(main_db.tasks) + Len(copy_db.tasks)
    /\ merge_stats.tasks_merged > 0

\* the entries of the remap table for business key k
EntriesOf(k) ==
    {x \in DOMAIN quote_id_mapping : quote_id_mapping[x].quote_no = k}

\* C9 (remap table): once merge_quotes has processed every decision, an
\* overlapping key has the winner's entry (is_winner) and the loser's entry
\* (not is_winner) with the same new id and no other entry; any other key has
\* its one entry, is_winner
C9_RemapTable ==
    ((pc = "merge_quotes" /\ cursor.row > Len(decision_order))
       \/ pc \in {"merge_related", "default_tasks", "commit", "validate", "done"}) =>
        \A k \in KeysOf(main_db) \cup KeysOf(copy_db) :
            LET winner == quote_decisions[k].winner
                wkey == MappingKey(winner, RowOf(Db(winner), k).id)
            IN  /\ wkey \in EntriesOf(k)
                /\ quote_id_mapping[wkey].is_winner
                /\ IF k \in KeysOf(main_db) \cap KeysOf(copy_db)
                   THEN LET lkey == MappingKey(Loser(winner),
                                               RowOf(Db(Loser(winner)), k).id)
                        IN  /\ lkey \in EntriesOf(k)
                            /\ ~quote_id_mapping[lkey].is_winner
                            /\ quote_id_mapping[lkey].new_id
                                  = quote_id_mapping[wkey].new_id
                            /\ EntriesOf(k) = {wkey, lkey}
                            /\ wkey # lkey
                   ELSE EntriesOf(k) = {wkey}

\* merge_quotes has returned a table for an overlapping key and another key
C9_Witness ==
    /\ pc = "merge_related"
    /\ KeysOf(main_db) \cap KeysOf(copy_db) # {}
    /\ KeysOf(main_db) \cup KeysOf(copy_db) # KeysOf(main_db) \cap KeysOf(copy_db)
    /\ Cardinality(DOMAIN quote_id_mapping) = 3

\* C10 (rollback): an exception in the quote merge, in a dependent-table merge
\* or in the default_tasks copy leaves the output database, as seen and as
\* committed, without any row, and ends the run with the exception raised
C10_FailureRollsBack ==
    [][(pc \in MergePhases /\ raised' # "none") =>
          /\ NoRows(output_db')
          /\ NoRows(output_disk')
          /\ pc' = "raised"]_vars

\* a run has failed after quotes and tasks had been inserted
C10_Witness ==
    /\ pc = "raised"
    /\ raised = "Exception"
    /\ merge_stats.quotes_merged > 0
    /\ merge_stats.tasks_merged > 0
    /\ NoRows(output_db)

\* a source file of the run is missing or unreadable
SourceUnusable == \E o \in DOMAIN files : files[o] # "ok"

\* C11: when a source file is missing or unreadable, execute_merge fails
\* before any backup file is written and before any mutation: no backup of
\* either source ever exists, the run gets no further than its failure, and
\* the file at the output path is neither removed nor changed.
C11_FailsBeforeBackup ==
    /\ [](SourceUnusable => backups = {} /\ pc \in {"start", "raised"})
    /\ [][SourceUnusable =>
            UNCHANGED <<output_file, output_tables, output_disk>>]_vars

\* C12: in every run, whether it succeeds or fails at any step, no step
\* writes to, deletes or replaces a source: the content of source A and of
\* source B stays what it was at the start, which is what the backups hold.
C12_SourcesUntouched ==
    /\ [][main_db' = main_db /\ copy_db' = copy_db /\ files' = files]_vars
    /\ [](\A b \in backups : b.content = Db(b.of))

\* a run that failed after it had merged quotes of two sources that hold some
C12_Witness ==
    /\ pc = "raised"
    /\ raised = "Exception"
    /\ merge_stats.quotes_merged > 0
    /\ main_db.quotes # {}
    /\ copy_db.quotes # {}
    /\ {b.of : b \in backups} = {"main", "copy"}

\* backup copies of both source files exist
BothBackedUp ==
    \A o \in {"main", "copy"} :
        \E b \in backups : b.of = o /\ b.content = Db(o)

\* C13: backup copies of both source files exist before the first mutating
\* step: every step that removes or creates the output file, applies a table
\* definition or inserts, commits or rolls back a row starts in a state in
\* which both backups are complete.
C13_BackupsBeforeMutation ==
    [][<<output_file, output_tables, output_disk, output_db>>' #
         <<output_file, output_tables, output_disk, output_db>>
       => BothBackedUp]_vars

\* the file at the output path was replaced and rows were inserted
C13_Witness ==
    /\ output_file = "new"
    /\ output_disk # StaleDb
    /\ Len(output_db.quotes) > 0
    /\ BothBackedUp

\* merge_quotes is about to process an overlapping key whose loser row is no
\* longer found by business key in the loser's source
LoserGone ==
    /\ pc = "merge_quotes"
    /\ cursor.row <= Len(decision_order)
    /\ LET quote_no == decision_order[cursor.row]
           decision == quote_decisions[quote_no]
       IN  /\ decision.status = "overlapping"
           /\ quote_no \notin KeysOf(Db(Loser(decision.winner)))

\* C16: when the loser's row of an overlapping key is no longer found by
\* business key as merge_quotes processes the key, merge_quotes does not
\* raise: it inserts the winner's row and counts it as merged, adds the
\* winner's entry and no loser entry to the remap table, and leaves the
\* deduplicated counter as it is.
C16_LoserGoneIsNoError ==
    /\ [](LoserGone => ENABLED MergeQuote /\ ~ENABLED MergeQuoteRaises)
    /\ [][(LoserGone /\ raised' = "none") =>
            LET quote_no == decision_order[cursor.row]
                decision == quote_decisions[quote_no]
                new_id == Len(output_db.quotes) + 1
                key == MappingKey(decision.winner, decision.winner_data.id)
            IN  /\ Len(output_db'.quotes) = new_id
                /\ Payload(output_db'.quotes[new_id]) =
                       [Payload(RowOf(Db(decision.winner), quote_no))
                           EXCEPT !.sales_rep_id = NULL]
                /\ merge_stats'.quotes_merged = merge_stats.quotes_merged + 1
                /\ merge_stats'.quotes_deduplicated =
                       merge_stats.quotes_deduplicated
                /\ DOMAIN quote_id_mapping' = DOMAIN quote_id_mapping \cup {key}
                /\ quote_id_mapping'[key] =
                       [new_id |-> new_id, quote_no |-> quote_no,
                        is_winner |-> TRUE]]_vars

\* merge_quotes has returned after an overlapping key whose loser row was gone
C16_Witness ==
    /\ pc = "merge_related"
    /\ raised = "none"
    /\ \E k \in DOMAIN quote_decisions :
          /\ quote_decisions[k].status = "overlapping"
          /\ k \notin KeysOf(Db(Loser(quote_decisions[k].winner)))
          /\ \E i \in DOMAIN output_db.quotes : output_db.quotes[i].quote_no = k
    /\ merge_stats.quotes_merged = 1
    /\ merge_stats.quotes_deduplicated = 0
    /\ Cardinality(DOMAIN quote_id_mapping) = 1

\* the tables of the cloned schema with a foreign key to quotes(id)
ChildTables == {"tasks", "vendor_quotes", "notes", "events", "email_history"}

\* the rows of a child table of a source whose parent is a winning quote, each
\* with the business key of its parent
WinningRows(origin, table_name) ==
    {<<i, k>> \in (DOMAIN Db(origin)[table_name]) \X KeysOf(Db(origin)) :
        /\ RowOf(Db(origin), k).id = Db(origin)[table_name][i].quote_id
        /\ quote_decisions[k].winner = origin}

\* C17: after a successful run, for every table that references quotes by a
\* foreign key (tasks, vendor_quotes, notes, events and email_history), each
\* source row whose parent is a winning quote is in the output, under the
\* output id of its parent.
C17_EveryChildTable ==
    pc = "done" =>
        \A table_name \in ChildTables : \A origin \in {"main", "copy"} :
            \A w \in WinningRows(origin, table_name) :
                \E j \in DOMAIN output_disk[table_name] :
                    /\ Payload(output_disk[table_name][j]) =
                           Payload(Db(origin)[table_name][w[1]])
                    /\ \E q \in OutputRowsOf(w[2]) :
                           output_disk.quotes[q].id =
                               output_disk[table_name][j].quote_id

\* C18: when a table definition fails to apply during schema cloning, the run
\* aborts and the output database holds no partial schema: none of the
\* reference tables or all of them, never a strict non-empty subset.
C18_NoPartialSchema ==
    [][(pc = "init_output" /\ raised' # "none") =>
          /\ pc' = "raised"
          /\ output_tables' \in {0, Len(SchemaTables)}]_vars

\* C19: on every exit path of a run, normal or by an exception, every
\* connection the run opened (source A, source B and output) is closed when
\* control returns to the caller.
C19_ConnectionsClosed ==
    pc \in {"done", "raised"} => open_conns = {}

\* analyze_quote_overlaps has returned its decisions
Analyzed ==
    /\ pc \notin {"start", "analyze"}
    /\ raised \notin {"FileNotFoundError", "DatabaseError", "TypeError"}

\* the columns the analyzer selects
DecisionColumns == {"id", "quote_no", "updated_at", "created_at"}

\* C20: the analyzer returns exactly one decision record per business key of
\* either source, and the classification is a partition: a key only in A is
\* main_only with winner main, a key only in B is copy_only with winner copy,
\* a key of both is overlapping, and winner_data is always the row of that
\* key in the winner's own source.
C20_OneRecordPerKey ==
    Analyzed =>
        /\ DOMAIN quote_decisions = KeysOf(main_db) \cup KeysOf(copy_db)
        /\ Len(decision_order) = Cardinality(DOMAIN quote_decisions)
        /\ Range(decision_order) = DOMAIN quote_decisions
        /\ \A k \in DOMAIN quote_decisions :
              LET decision == quote_decisions[k]
                  in_main == k \in KeysOf(main_db)
                  in_copy == k \in KeysOf(copy_db)
              IN  /\ decision.status =
                         IF in_main /\ in_copy THEN "overlapping"
                         ELSE IF in_main THEN "main_only" ELSE "copy_only"
                  /\ decision.status = "main_only" => decision.winner = "main"
                  /\ decision.status = "copy_only" => decision.winner = "copy"
                  /\ decision.winner \in {"main", "copy"}
                  /\ k \in KeysOf(Db(decision.winner))
                  /\ decision.winner_data =
                         [c \in DecisionColumns |->
                             RowOf(Db(decision.winner), k)[c]]

\* the analyzer has returned a main_only, a copy-won overlapping or a
\* copy_only record for the two keys
C20_Witness ==
    /\ pc = "init_output"
    /\ \E k \in DOMAIN quote_decisions :
          /\ quote_decisions[k].status = "overlapping"
          /\ quote_decisions[k].winner = "copy"
    /\ \E k \in DOMAIN quote_decisions :
          quote_decisions[k].status \in {"main_only", "copy_only"}

\* C21: for a key of both sources where each side has at least one timestamp,
\* the value compared for a side is its updated_at when that is present and
\* its created_at otherwise (created_at plays no part for a side that has an
\* updated_at): copy wins exactly when its value is the greater one.
C21_UpdatedAtFirst ==
    Analyzed =>
        \A k \in KeysOf(main_db) \cap KeysOf(copy_db) :
            LET a == RowOf(main_db, k)
                b == RowOf(copy_db, k)
                main_value == IF a.updated_at # NULL THEN a.updated_at
                              ELSE a.created_at
                copy_value == IF b.updated_at # NULL THEN b.updated_at
                              ELSE b.created_at
            IN  (main_value # NULL /\ copy_value # NULL) =>
                    (quote_decisions[k].winner = "copy"
                        <=> copy_value > main_value)

\* the analyzer has decided a key for copy by copy's updated_at, which is
\* later than main's created_at (main has no updated_at), although copy's
\* created_at is not
C21_Witness ==
    /\ pc = "init_output"
    /\ \E k \in KeysOf(main_db) \cap KeysOf(copy_db) :
          /\ RowOf(main_db, k).updated_at = NULL
          /\ RowOf(main_db, k).created_at # NULL
          /\ RowOf(copy_db, k).updated_at > RowOf(main_db, k).created_at
          /\ RowOf(copy_db, k).created_at # NULL
          /\ RowOf(copy_db, k).created_at <= RowOf(main_db, k).created_at
          /\ quote_decisions[k].winner = "copy"

\* the place of a phase in execute_merge
Rank(phase) ==
    CASE phase = "start" -> 0
      [] phase = "analyze" -> 1
      [] phase = "init_output" -> 2
      [] phase = "merge_quotes" -> 3
      [] phase = "merge_related" -> 4
      [] phase = "default_tasks" -> 5
      [] phase = "commit" -> 6
      [] phase = "validate" -> 7
      [] phase = "done" -> 8

\* every decision has its quotes row in the output and its winner's entry in
\* the remap table
QuoteMergeComplete ==
    /\ Len(output_db.quotes) = Cardinality(DOMAIN quote_decisions)
    /\ \A k \in DOMAIN quote_decisions :
          MappingKey(quote_decisions[k].winner,
                     quote_decisions[k].winner_data.id)
              \in DOMAIN quote_id_mapping

\* C22: the phases of a run occur once each and in order: the schema is
\* cloned once; the quote merge and the remap table are complete before the
\* first dependent row is processed; every insert precedes the one commit;
\* the integrity scan follows the commit and changes nothing in the output.
C22_PhaseOrder ==
    /\ [][(pc' # pc /\ pc' # "raised") => Rank(pc') = Rank(pc) + 1]_vars
    /\ [][(output_tables' # output_tables \/ output_file' # output_file)
             => pc = "init_output"]_vars
    /\ [][Len(output_db'.quotes) > Len(output_db.quotes)
             => pc = "merge_quotes"]_vars
    /\ [](pc = "merge_related" => QuoteMergeComplete)
    /\ [][(\E i \in DOMAIN RelatedTables :
              Len(output_db'[RelatedTables[i]]) > Len(output_db[RelatedTables[i]]))
             => pc = "merge_related"]_vars
    /\ [][(output_disk' # output_disk /\ output_disk' # NoDb)
             => (pc = "commit" /\ output_disk' = output_db)]_vars
    /\ [][(pc \in {"validate", "done"})
             => (output_db' = output_db /\ output_disk' = output_disk)]_vars

\* a run has passed every phase with two quotes and dependent rows merged
C22_Witness ==
    /\ pc = "done"
    /\ Len(output_disk.quotes) = 2
    /\ Len(output_disk.tasks) > 0
    /\ Len(output_disk.default_tasks) > 0

\* no row of the database holds the content of a row of the earlier output
NoStaleRow(db) ==
    \A table_name \in DOMAIN StaleDb :
        \A i \in DOMAIN db[table_name], j \in DOMAIN StaleDb[table_name] :
            Payload(db[table_name][i]) # Payload(StaleDb[table_name][j])

\* C23: table definitions are applied at the output path only once a file
\* already there has been removed, so the new database starts without rows
\* and a successful run's output holds no row of an earlier output file; when
\* the file cannot be removed the run fails before schema cloning and the
\* output path is left as it was.
C23_OutputReplaced ==
    /\ [][(pc = "init_output" /\ output_file' = "new")
             => (output_disk' = NoDb /\ output_db' = NoDb)]_vars
    /\ [](pc = "done" => (output_file = "new" /\ NoStaleRow(output_disk)))
    /\ [][(pc = "init_output" /\ raised' = "OSError")
             => (pc' = "raised" /\
                 UNCHANGED <<output_file, output_tables, output_disk,
                             output_db>>)]_vars

\* a successful run of the two-key scenarios, which start with the file of an
\* earlier merge at the output path
C23_Witness ==
    /\ pc = "done"
    /\ output_file = "new"
    /\ KeysOf(main_db) \cup KeysOf(copy_db) = QuoteNos
    /\ \A i \in DOMAIN output_disk.quotes :
          output_disk.quotes[i].quote_no \in QuoteNos

\* the rows of a dependent table of a source, as <<origin, index>>
RowsOfBoth(table_name) ==
    {<<origin, i>> \in {"main", "copy"} \X (1..(Len(main_db[table_name])
                                               + Len(copy_db[table_name]))) :
        i \in DOMAIN Db(origin)[table_name]}

\* the rows of a dependent table whose parent is a quote of their own source
\* that lost its key to the other source
RowsOfLosers(table_name) ==
    {w \in RowsOfBoth(table_name) :
        \E k \in KeysOf(Db(w[1])) :
            /\ RowOf(Db(w[1]), k).id = Db(w[1])[table_name][w[2]].quote_id
            /\ quote_decisions[k].winner # w[1]}

\* the rows of a dependent table whose quote_id is the id of no quote of their
\* own source (no remap entry)
RowsWithoutParent(table_name) ==
    {w \in RowsOfBoth(table_name) :
        \A r \in Db(w[1]).quotes :
            r.id # Db(w[1])[table_name][w[2]].quote_id}

\* C24: once merge_related_table has run for the four tables, for each of
\* them the reported merged count is the number of rows of the output table,
\* the deduplicated count is the number of source rows whose parent is a
\* losing duplicate, and merged + deduplicated + rows without remap entry is
\* the number of rows of the table in source A plus source B.
C24_TableCounts ==
    pc \in {"default_tasks", "commit", "validate", "done"} =>
        \A t \in DOMAIN RelatedTables :
            LET table_name == RelatedTables[t]
                merged == merge_stats[table_name \o "_merged"]
                deduplicated == merge_stats[table_name \o "_deduplicated"]
            IN  /\ merged = Len(output_db[table_name])
                /\ deduplicated = Cardinality(RowsOfLosers(table_name))
                /\ merged + deduplicated
                     + Cardinality(RowsWithoutParent(table_name))
                     = Len(main_db[table_name]) + Len(copy_db[table_name])

\* the four tables are merged, with rows imported, rows of a losing duplicate
\* and rows without parent in tasks
C24_Witness ==
    /\ pc = "default_tasks"
    /\ merge_stats.tasks_merged > 0
    /\ merge_stats.tasks_deduplicated > 0
    /\ merge_stats.events_merged > 0
    /\ RowsWithoutParent("tasks") # {}

\* C25: in every call of execute_merge that reaches the report, a second call
\* on the same object included, quotes_merged is the number of quotes rows
\* of that call's output and quotes_deduplicated is the number of overlapping
\* keys of that call; no count of an earlier call carries over.
C25_CountsPerInvocation ==
    pc = "done" =>
        /\ merge_stats.quotes_merged = Len(output_disk.quotes)
        /\ merge_stats.quotes_deduplicated =
               Cardinality(KeysOf(main_db) \cap KeysOf(copy_db))

\* the business key of the quote with that id in a source
KeyOfId(origin, id) ==
    (CHOOSE r \in Db(origin).quotes : r.id = id).quote_no

\* C26: remap entries are scoped by origin. The entries of (main, n) and
\* (copy, n) are distinct and each refers to the quote with id n of its own
\* source; a dependent row of source X with quote_id n is in the output under
\* the quote of X's quote n when that quote won, and no output row is under
\* the quote of the other source's id n.
C26_ScopedByOrigin ==
    /\ \A origin \in {"main", "copy"} : \A r \in Db(origin).quotes :
          /\ MappingKey(origin, r.id) # MappingKey(Loser(origin), r.id)
          /\ MappingKey(origin, r.id) \in DOMAIN quote_id_mapping =>
                quote_id_mapping[MappingKey(origin, r.id)].quote_no = r.quote_no
    /\ pc = "done" =>
          \A t \in DOMAIN RelatedTables : \A origin \in {"main", "copy"} :
              LET table_name == RelatedTables[t]
                  rows == Db(origin)[table_name]
              IN  \A j \in DOMAIN rows :
                      \* the output rows with the content of source row j
                      LET same == {i \in DOMAIN output_disk[table_name] :
                                     Payload(output_disk[table_name][i])
                                         = Payload(rows[j])}
                      IN  /\ \A i \in same :
                                /\ Found(Db(origin), rows[j].quote_id)
                                /\ \E q \in OutputRowsOf(
                                              KeyOfId(origin, rows[j].quote_id)) :
                                      output_disk.quotes[q].id =
                                          output_disk[table_name][i].quote_id
                          /\ (/\ Found(Db(origin), rows[j].quote_id)
                              /\ quote_decisions[KeyOfId(origin,
                                     rows[j].quote_id)].winner = origin)
                                => same # {}

\* a successful run in which main's quote 1 and copy's quote 1 are different
\* quotes, both merged, each with its own tasks
C26_Witness ==
    /\ pc = "done"
    /\ \E a \in main_db.quotes, b \in copy_db.quotes :
          /\ a.id = b.id
          /\ a.quote_no # b.quote_no
          /\ a.quote_no \notin KeysOf(copy_db)
          /\ b.quote_no \notin KeysOf(main_db)
          /\ quote_id_mapping[MappingKey("main", a.id)].new_id
               # quote_id_mapping[MappingKey("copy", b.id)].new_id
    /\ Len(output_disk.tasks) = 2 * DepPerQuote

\* the content of the rows of a table under parent id quote_id, in table order
PayloadsUnder(rows, quote_id) ==
    LET under == SelectSeq(rows, LAMBDA row : row.quote_id = quote_id)
    IN  [i \in DOMAIN under |-> Payload(under[i])]

\* a database up to the renaming of its ids: per quote its content and the
\* content of its dependent rows
UpToIds(quotes, tables) ==
    {[quote |-> Payload(q),
      rows |-> [t \in Range(RelatedTables) |-> PayloadsUnder(tables[t], q.id)]] :
        q \in quotes}

\* the merge of the decisions, up to ids: per key the winner's row as
\* merge_quotes writes it and the dependent rows of the winner's source
MergeUpToIds ==
    UNION {UpToIds({r \in {InsertedQuote(q, q.id) :
                              q \in Db(quote_decisions[k].winner).quotes} :
                      r.quote_no = k},
                   Db(quote_decisions[k].winner)) :
             k \in DOMAIN quote_decisions}

\* C27: the merged result does not depend on the order in which merge_quotes
\* visits the decisions: whatever the order, the output of a successful run
\* is, up to the new ids, the same value of the decisions and the sources
\* (per key the winner's attributes and the winner's dependent rows).
C27_OrderIndependent ==
    pc = "done" =>
        /\ UpToIds(Range(output_disk.quotes), output_disk) = MergeUpToIds
        /\ Len(output_disk.quotes) = Cardinality(DOMAIN quote_decisions)

\* a successful run that visited two decisions of one class in the order Q2,
\* Q1, where the order Q1, Q2 was as possible
C27_Witness ==
    /\ pc = "done"
    /\ decision_order = <<"Q2", "Q1">>
    /\ quote_decisions["Q1"].status = quote_decisions["Q2"].status
    /\ output_disk.quotes[1].quote_no = "Q2"
    /\ Len(output_disk.notes) = 2 * DepPerQuote

\* C28: merging a database with an identical copy reproduces it: after a
\* successful run on two sources of equal content every key is overlapping
\* with winner main, the output holds exactly A's quotes and per quote exactly
\* A's dependent rows, each once, up to the new ids, and the deduplicated
\* count of each table is the number of A's rows with an existing parent.
C28_SelfMerge ==
    (pc = "done" /\ copy_db = main_db) =>
        /\ \A k \in DOMAIN quote_decisions :
              /\ quote_decisions[k].status = "overlapping"
              /\ quote_decisions[k].winner = "main"
        /\ Len(output_disk.quotes) = Cardinality(main_db.quotes)
        /\ UpToIds(Range(output_disk.quotes), output_disk)
             = UpToIds(main_db.quotes, main_db)
        /\ \A t \in DOMAIN RelatedTables :
              merge_stats[RelatedTables[t] \o "_deduplicated"] =
                  Cardinality({i \in DOMAIN main_db[RelatedTables[t]] :
                      Found(main_db, main_db[RelatedTables[t]][i].quote_id)})

\* C29: in every run that reaches the integrity scan, the scan finds no
\* violation: every dependent row of the committed output carries the id of
\* a quotes row of the output, for any pair of sources.
C29_NoViolations ==
    /\ pc = "validate" =>
          \A t \in DOMAIN RelatedTables :
              \A i \in DOMAIN output_disk[RelatedTables[t]] :
                  \E q \in DOMAIN output_disk.quotes :
                      output_disk.quotes[q].id =
                          output_disk[RelatedTables[t]][i].quote_id
    /\ pc = "done" => violations = 0

\* the scan has run on an output with merged dependent rows, after rows of a
\* losing duplicate and rows without parent were left out
C29_Witness ==
    /\ pc = "done"
    /\ violations = 0
    /\ Len(output_disk.vendor_quotes) > 0
    /\ merge_stats.vendor_quotes_deduplicated > 0
    /\ RowsWithoutParent("vendor_quotes") # {}

\* the columns the copy of default_tasks reads and writes
DefaultTaskColumns == {"label", "sort_order", "is_separator", "created_at"}

\* C30: after a successful run the output default_tasks holds exactly the
\* rows of main's default_tasks (label, sort_order, is_separator, created_at;
\* one output row per main row, in main's order) whatever copy's
\* default_tasks holds.
C30_DefaultTasksFromMain ==
    pc = "done" =>
        /\ Len(output_disk.default_tasks) = Len(main_db.default_tasks)
        /\ \A i \in DOMAIN output_disk.default_tasks :
              \A c \in DefaultTaskColumns :
                  output_disk.default_tasks[i][c] = main_db.default_tasks[i][c]

\* a successful run on sources whose default_tasks differ in number and
\* content
C30_Witness ==
    /\ pc = "done"
    /\ Len(output_disk.default_tasks) = 2
    /\ Len(copy_db.default_tasks) = 1
    /\ copy_db.default_tasks[1].label # main_db.default_tasks[1].label

====
